---- MODULE Spec2Model ----
(***************************************************************************)
(* Agentic RAG system: the LangGraph answer cycle (agent_app/graph.py,     *)
(* agent_app/nodes.py, agent_app/state.py), the retrieval gateway          *)
(* (agent_app/tools.py), the Redis conversation memory                     *)
(* (agent_app/memory.py), the ingestion pipeline and the vector store       *)
(* wrapper (mcp_server/ingestion.py, mcp_server/db.py, mcp_server/server.py)*)
(* and the warm-up of the application (agent_app/app.py).                  *)
(*                                                                         *)
(* Python strings are sequences of one-character strings, so that strip,   *)
(* lower, substring search, join, split and slicing are computed as the    *)
(* code computes them.                                                     *)
(***************************************************************************)
EXTENDS Integers, Sequences, FiniteSets, TLC

(***************************************************************************)
(* Bounds of the model.                                                    *)
(***************************************************************************)
\* run_agent calls made in one behaviour of Spec
MaxCycles == 1
\* run_agent calls made in one behaviour of ConcSpec
MaxConcCycles == 2
\* hits one vector search returns at most (top_k is 5 in the code)
MaxHits == 2
\* turn pairs a session's list holds when the process starts
MaxPriorTurns == 1
\* cap on retrieval_count / generation_count, so that a cycle that loops
\* is still explored over a finite state space
MaxCount == 5
\* save_history_background calls made in MemSpec
MaxSaves == 1
\* pages a loader returns for one file at most
MaxPages == 2
\* rows the collection holds at most when an ingest_file call starts
MaxRows == 2

(***************************************************************************)
(* Program constants.                                                      *)
(***************************************************************************)
MAX_RETRIEVAL_ATTEMPTS == 3
MAX_GENERATION_ATTEMPTS == 2
\* history[-6:] in retrieve
HistoryWindow == 6
\* ltrim(key, -20, -1) in add_message_sync
HistoryCap == 20
\* context[:4000] in generate
GenerateContextChars == 4000

(***************************************************************************)
(* String literals of the program.                                         *)
(***************************************************************************)
NoContext == <<"N","o"," ","c","o","n","t","e","x","t"," ","a","v","a","i","l","a","b","l","e",".">>
NoAnswer == <<"I"," ","c","o","u","l","d","n","'","t"," ","f","i","n","d"," ","a","n"," ","a","n","s","w","e","r"," ","t","o"," ","y","o","u","r"," ","q","u","e","s","t","i","o","n",".">>
NoDocsFound == <<"N","o"," ","r","e","l","e","v","a","n","t"," ","d","o","c","u","m","e","n","t","s"," ","f","o","u","n","d",".">>
EmbedError == <<"E","r","r","o","r",":"," ","C","o","u","l","d"," ","n","o","t"," ","g","e","n","e","r","a","t","e"," ","q","u","e","r","y"," ","e","m","b","e","d","d","i","n","g">>
SearchErrorPrefix == <<"E","r","r","o","r"," ","s","e","a","r","c","h","i","n","g"," ","k","n","o","w","l","e","d","g","e"," ","b","a","s","e",":"," ">>
NotConnected == <<"N","o","t"," ","c","o","n","n","e","c","t","e","d"," ","t","o"," ","M","i","l","v","u","s","."," ","C","a","l","l"," ","c","o","n","n","e","c","t","(",")"," ","f","i","r","s","t",".">>
FileNotFound == <<"F","i","l","e"," ","n","o","t"," ","f","o","u","n","d",":"," ">>
UnsupportedType == <<"U","n","s","u","p","p","o","r","t","e","d"," ","f","i","l","e"," ","t","y","p","e",":"," ">>
SupportedTypes == <<"."," ","S","u","p","p","o","r","t","e","d",":"," ">>
Yes == <<"y","e","s">>
UserRole == <<"u","s","e","r">>
AssistantRole == <<"a","s","s","i","s","t","a","n","t">>

(***************************************************************************)
(* Values the environment supplies.                                        *)
(***************************************************************************)
\* questions a caller passes to run_agent
Questions == { <<"q","?">>, <<"a",":","b">> }
\* session identifiers
Sessions == {"s1", "s2"}
\* execution contexts that call run_agent (one Streamlit script run each)
Cycles == {"c1", "c2"}
\* the context that calls run_agent in Spec and GraphSpec
Callers == {"c1"}
\* texts the LLM endpoint answers with: an upper-case yes, a no, a text
\* with surrounding white space, the empty text
LLMTexts == { <<"Y","E","S">>, <<"n","o">>, <<" ","r","\n">>, <<>> }
\* call_llm raised after its retries (not a text: no character is a word)
LLMError == <<"raised">>
LLMOutcomes == LLMTexts \cup {LLMError}
\* texts of the stored chunks
D1 == <<"d","1">>
D2 == <<"d","2">>
\* message of an exception raised by the embedding or the vector search
ExcText == <<"d","o","w","n">>

(***************************************************************************)
(* Python string and list operations.                                      *)
(***************************************************************************)
Min(a, b) == IF a <= b THEN a ELSE b
Max(a, b) == IF a >= b THEN a ELSE b

\* s[:n]
Take(s, n) == SubSeq(s, 1, Min(Len(s), n))

\* s[-n:]
LastN(s, n) == SubSeq(s, Max(1, Len(s) - n + 1), Len(s))

IsSpace(ch) == ch \in {" ", "\n", "\t"}

RECURSIVE LStrip(_)
LStrip(s) == IF s # <<>> /\ IsSpace(Head(s)) THEN LStrip(Tail(s)) ELSE s

RECURSIVE RStrip(_)
RStrip(s) ==
  IF s # <<>> /\ IsSpace(s[Len(s)]) THEN RStrip(SubSeq(s, 1, Len(s) - 1)) ELSE s

\* str.strip()
Strip(s) == RStrip(LStrip(s))

LowerChar(ch) ==
  CASE ch = "Y" -> "y"
    [] ch = "E" -> "e"
    [] ch = "S" -> "s"
    [] ch = "N" -> "n"
    [] ch = "O" -> "o"
    [] ch = "I" -> "i"
    [] ch = "P" -> "p"
    [] ch = "D" -> "d"
    [] ch = "F" -> "f"
    [] OTHER -> ch

\* str.lower()
Lower(s) == [i \in 1..Len(s) |-> LowerChar(s[i])]

\* sub in s
Contains(sub, s) ==
  \E i \in 1..(Len(s) - Len(sub) + 1) : SubSeq(s, i, i + Len(sub) - 1) = sub

RECURSIVE Join(_, _)
\* sep.join(parts)
Join(sep, parts) ==
  IF parts = <<>> THEN <<>>
  ELSE IF Len(parts) = 1 THEN parts[1]
  ELSE parts[1] \o sep \o Join(sep, Tail(parts))

\* str(i) for the ranks used
Digit(i) == <<CASE i = 1 -> "1" [] i = 2 -> "2" [] i = 3 -> "3" [] i = 4 -> "4" [] OTHER -> "5">>

\* dict.get(key, default)
Get(d, key, default) == IF key \in DOMAIN d THEN d[key] ELSE default

(***************************************************************************)
(* agent_app/tools.py and the parts of mcp_server it calls.                *)
(***************************************************************************)
\* the i-th ranked chunk of the corpus
Corpus(i) == IF i % 2 = 1 THEN D1 ELSE D2

\* what db.search can return: the first n chunks, as {text, source, score}
\* records of which search_knowledge_base reads the text only
HitLists == { [i \in 1..n |-> [text |-> Corpus(i)]] : n \in 0..MaxHits }

\* outcome of the embedding + vector search of one search_knowledge_base
\* call: the ranked hits, or an exception
SearchOutcomes ==
  { [kind |-> "ok", results |-> r] : r \in HitLists }
    \cup { [kind |-> "raise", results |-> <<>>, error |-> ExcText] }

\* generate_embeddings: one vector per text, none for no text
generate_embeddings(texts) == [i \in 1..Len(texts) |-> "vec"]

\* f"[{i}] {doc['text']}" for i, doc in enumerate(results, 1)
FormatHits(results) ==
  [i \in 1..Len(results) |-> <<"[">> \o Digit(i) \o <<"]", " ">> \o results[i].text]

\* variant: a search without hits gives the empty string
search_knowledge_base_blank(query, outcome) ==
  IF outcome.kind = "raise" THEN SearchErrorPrefix \o outcome.error
  ELSE IF generate_embeddings(<<query>>) = <<>> THEN EmbedError
  ELSE IF outcome.results = <<>> THEN <<>>
  ELSE Join(<<"\n", "\n">>, FormatHits(outcome.results))

search_knowledge_base(query, outcome) ==
  IF outcome.kind = "raise" THEN SearchErrorPrefix \o outcome.error
  ELSE IF generate_embeddings(<<query>>) = <<>> THEN EmbedError
  ELSE IF outcome.results = <<>> THEN NoDocsFound
  ELSE Join(<<"\n", "\n">>, FormatHits(outcome.results))

(***************************************************************************)
(* agent_app/state.py: the channels of the graph state and their reducers. *)
(***************************************************************************)
\* keys of the AgentState TypedDict
AgentState ==
  {"question", "documents", "answer", "retrieval_count", "generation_count"}

\* Annotated[List[str], add] for documents, last value for the others
Reduce(key, old, new) == IF key = "documents" THEN old \o new ELSE new

\* a node's returned dict merged into the state through the reducers
ApplyUpdate(state, upd) ==
  [k \in DOMAIN state \cup (DOMAIN upd \cap AgentState) |->
     IF k \in DOMAIN upd
       THEN IF k \in DOMAIN state THEN Reduce(k, state[k], upd[k])
            ELSE Reduce(k, IF k = "documents" THEN <<>> ELSE upd[k], upd[k])
       ELSE state[k]]

\* the empty dict
EmptyDict == [k \in {} |-> 0]

\* graph.ainvoke(input) on a graph compiled without a checkpointer: the
\* channels start empty and take the input's keys that the schema declares
\* as if the graph were compiled with a checkpointer: the channels resume
\* from the values the previous cycle left
InvokeState_checkpointed(previous, input) == ApplyUpdate(previous, input)

InvokeState(previous, input) == ApplyUpdate(EmptyDict, input)

(***************************************************************************)
(* agent_app/nodes.py.                                                     *)
(***************************************************************************)
\* the condition under which retrieve contextualizes the question
Contextualizes(state) ==
  /\ Get(state, "chat_history", <<>>) # <<>>
  /\ Get(state, "retrieval_count", 0) = 0

\* retrieve that forgets to count the attempt
retrieve_uncounted(state, llm, outcome) ==
  LET docs == search_knowledge_base(state["question"], outcome)
  IN  [documents |-> IF docs # <<>> THEN <<docs>> ELSE <<>>,
       retrieval_count |-> Get(state, "retrieval_count", 0),
       question |-> state["question"]]

retrieve(state, llm, outcome) ==
  LET question == state["question"]
      count == Get(state, "retrieval_count", 0)
      final_query == IF Contextualizes(state) THEN Strip(llm) ELSE question
      docs == search_knowledge_base(final_query, outcome)
  IN  [documents |-> IF docs # <<>> THEN <<docs>> ELSE <<>>,
       retrieval_count |-> count + 1,
       question |-> final_query]

\* "yes" in response.lower()
SaysYes(response) == Contains(Yes, Lower(response))

grade_documents(state, llm) ==
  LET documents == Get(state, "documents", <<>>)
  IN  IF documents = <<>> THEN [documents |-> <<>>]
      ELSE IF SaysYes(llm) THEN EmptyDict
      ELSE [documents |-> <<>>]

rewrite_query(state, llm) == [question |-> Strip(llm)]

\* the context generate puts in its prompt
GenerateContext(state) ==
  LET documents == Get(state, "documents", <<>>)
      context == IF documents # <<>> THEN Join(<<"\n">>, documents) ELSE NoContext
  IN  Take(context, GenerateContextChars)

\* variant: generate forgets to count the attempt
generate_uncounted(state, llm) ==
  [answer |-> llm, generation_count |-> Get(state, "generation_count", 0)]

generate(state, llm) ==
  [answer |-> llm, generation_count |-> Get(state, "generation_count", 0) + 1]

\* a check that withdraws an answer it finds ungrounded
check_hallucination_acting(state, llm) ==
  IF Get(state, "documents", <<>>) = <<>> \/ Get(state, "answer", <<>>) = <<>>
    THEN EmptyDict
  ELSE IF SaysYes(llm) THEN EmptyDict
  ELSE [answer |-> <<>>]

check_hallucination(state, llm) == EmptyDict

\* the attempt cap compared with > instead of >=
should_retrieve_again_late(state) ==
  IF Get(state, "documents", <<>>) # <<>> THEN "generate"
  ELSE IF Get(state, "retrieval_count", 0) > MAX_RETRIEVAL_ATTEMPTS THEN "generate"
  ELSE "rewrite"

should_retrieve_again(state) ==
  IF Get(state, "documents", <<>>) # <<>> THEN "generate"
  ELSE IF Get(state, "retrieval_count", 0) >= MAX_RETRIEVAL_ATTEMPTS THEN "generate"
  ELSE "rewrite"

\* the regeneration loop the generation cap was written for
should_regenerate_retry(state) ==
  IF Get(state, "generation_count", 0) >= MAX_GENERATION_ATTEMPTS THEN "end"
  ELSE "generate"

should_regenerate(state) ==
  IF Get(state, "generation_count", 0) >= MAX_GENERATION_ATTEMPTS THEN "end"
  ELSE "end"

\* whether the node makes a call_llm call in this state
CallsLLM(node, state) ==
  CASE node = "retrieve" -> Contextualizes(state)
    [] node = "grade" -> Get(state, "documents", <<>>) # <<>>
    [] node = "hallucination_check" ->
         Get(state, "documents", <<>>) # <<>> /\ Get(state, "answer", <<>>) # <<>>
    [] OTHER -> TRUE

(***************************************************************************)
(* agent_app/graph.py: build_graph.                                        *)
(***************************************************************************)
Nodes == {"retrieve", "grade", "rewrite", "generate", "hallucination_check"}
END == "END"

\* workflow.add_node(name, function)
NodeUpdate(node, state, llm, outcome) ==
  CASE node = "retrieve" -> retrieve(state, llm, outcome)
    [] node = "grade" -> grade_documents(state, llm)
    [] node = "rewrite" -> rewrite_query(state, llm)
    [] node = "generate" -> generate(state, llm)
    [] node = "hallucination_check" -> check_hallucination(state, llm)

\* the edges and conditional edges: the node that runs after `node`, state
\* being the state after node's update
NextNode(node, state) ==
  CASE node = "retrieve" -> "grade"
    [] node = "grade" ->
         (IF should_retrieve_again(state) = "generate" THEN "generate" ELSE "rewrite")
    [] node = "rewrite" -> "retrieve"
    [] node = "generate" -> "hallucination_check"
    [] node = "hallucination_check" ->
         (IF should_regenerate(state) = "end" THEN END ELSE "generate")

(***************************************************************************)
(* agent_app/memory.py.                                                    *)
(***************************************************************************)
\* variant: the content is stored without its surrounding white space
Encode_stripped(role, content) == role \o <<":">> \o Strip(content)

\* f"{role}:{content}"
Encode(role, content) == role \o <<":">> \o content

\* variant: the index of the last colon
FirstColon_last(msg) ==
  IF \E i \in 1..Len(msg) : msg[i] = ":"
    THEN CHOOSE i \in 1..Len(msg) :
           msg[i] = ":" /\ \A j \in (i + 1)..Len(msg) : msg[j] # ":"
    ELSE 0

\* index of the first colon of msg, 0 when there is none
FirstColon(msg) ==
  IF \E i \in 1..Len(msg) : msg[i] = ":"
    THEN CHOOSE i \in 1..Len(msg) :
           msg[i] = ":" /\ \A j \in 1..(i - 1) : msg[j] # ":"
    ELSE 0

\* role, content = msg.split(":", 1)
SplitFirst(msg) ==
  [role |-> SubSeq(msg, 1, FirstColon(msg) - 1),
   content |-> SubSeq(msg, FirstColon(msg) + 1, Len(msg))]

RECURSIVE ParseHistory(_)
\* the loop of get_history_sync over the entries lrange returned
ParseHistory(messages) ==
  IF messages = <<>> THEN <<>>
  ELSE (IF Contains(<<":">>, Head(messages))
          THEN <<SplitFirst(Head(messages))>> ELSE <<>>)
       \o ParseHistory(Tail(messages))

\* variant: the trim keeps one entry fewer
ltrim_short(list) == LastN(list, HistoryCap - 1)

\* client.ltrim(key, -20, -1)
ltrim(list) == LastN(list, HistoryCap)

\* get_redis_sync: the client it leaves in _redis_client and whether it
\* returns (ok) or raises out of the ping; up is the store's reachability
get_redis_sync(client, up) ==
  IF client = "None" THEN [client |-> "client", ok |-> up]
  ELSE [client |-> client, ok |-> TRUE]

(***************************************************************************)
(* State.                                                                  *)
(***************************************************************************)
VARIABLES
  redisUp,       \* the key-value store is reachable
  redis_client,  \* memory._redis_client: "None" or "client"
  store,         \* the store's list under "chat:<session>", per session
  started,       \* number of run_agent calls made so far
  pc,            \* per context: where its run_agent call is
  session_id,    \* per context: run_agent's session_id argument
  asked,         \* per context: run_agent's question argument
  history,       \* per context: run_agent's local history
  state,         \* per context: the graph state of the running cycle
  result,        \* per context: what run_agent gave its caller
  num,           \* per context: ordinal of its current run_agent call
  savers,        \* the background _save threads, by ordinal of the call
  pushed,        \* per session: the messages pushed since its last clear
  trace,         \* per context: the nodes the cycle has run, in order
  ctxCalls,      \* per context: contextualization call_llm calls of the cycle
  ctxWindow,     \* per context: history entries of the last such call
  graded,        \* per context: outcome of the cycle's last Grade
  genContext,    \* per context: context of the cycle's generation prompt
  zeroHits,      \* per context: every search of the cycle found no hit
  retry_fn,      \* the @retry function being invoked: call_llm or connect
  retry_status,  \* where the invocation is: attempting, sleeping, returned, raised
  attempts,      \* the outcomes of the attempts the invocation has made
  sleeps,        \* the waits, in seconds, between those attempts
  surfaced,      \* what the invocation gave its caller
  db_client,     \* db.client: 0 for None, else the ordinal of the MilvusClient
  clients_made,  \* MilvusClient instances made so far
  embedding_model, \* ingestion._embedding_model: 0 for None, else its ordinal
  models_made,   \* SentenceTransformer instances made so far
  rag_graph,     \* graph.rag_graph: 0 for None, else the ordinal of the graph
  graphs_made,   \* graphs compiled so far
  collection,    \* the vector store's collection: whether it exists, its rows
  tpc,           \* per thread of the application: where it is
  req,           \* the request thread's call: its arguments, locals and result
  calls          \* the external calls the request thread's call has made

memVars == <<redisUp, redis_client, store, savers, pushed>>
callVars == <<started, pc, session_id, asked, history, state, result, num>>
obsVars == <<trace, ctxCalls, ctxWindow, graded, genContext, zeroHits>>
retryVars == <<retry_fn, retry_status, attempts, sleeps, surfaced>>
kbVars == <<db_client, clients_made, embedding_model, models_made, rag_graph,
           graphs_made, collection, tpc, req, calls>>
auxVars == <<retryVars, kbVars>>
vars == <<memVars, callVars, obsVars, auxVars>>

NoResult == [kind |-> "none", value |-> <<>>]
Raised == [kind |-> "raised", value |-> <<>>]
Answer(a) == [kind |-> "answer", value |-> a]

IdleSaver == [pc |-> "unused", session |-> "s1", question |-> <<>>, answer |-> <<>>]
SaverIds == 1..Max(Max(MaxCycles, MaxConcCycles), MaxSaves)

\* a session's list as an earlier run of the process left it in the store
RECURSIVE PriorTurns(_)
PriorTurns(n) ==
  IF n = 0 THEN <<>>
  ELSE PriorTurns(n - 1)
       \o <<Encode(UserRole, <<"q", "?">>), Encode(AssistantRole, <<" ", "r", "\n">>)>>

\* the messages of those turns, as they were handed to add_message_sync
RECURSIVE PriorMessages(_)
PriorMessages(n) ==
  IF n = 0 THEN <<>>
  ELSE PriorMessages(n - 1)
       \o <<[role |-> UserRole, content |-> <<"q", "?">>],
            [role |-> AssistantRole, content |-> <<" ", "r", "\n">>]>>

NoOutcome == [kind |-> "none", value |-> <<>>, exc |-> "none"]

\* no @retry function is being invoked
RetryInit ==
  /\ retry_fn = "none"
  /\ retry_status = "idle"
  /\ attempts = <<>>
  /\ sleeps = <<>>
  /\ surfaced = NoOutcome

\* threads of the application: the four tasks of warm_up_resources and a
\* thread that serves a request
WarmTasks == {"load_db", "load_graph", "load_ingest", "load_model"}
Threads == WarmTasks \cup {"request"}

NoOut == [kind |-> "none", value |-> <<>>]
NoFile == [path |-> <<>>, exists |-> FALSE, pages |-> <<>>, corrupt |-> FALSE]
NoReq == [op |-> "none", query |-> <<>>, top_k |-> 0, file |-> NoFile,
          texts |-> <<>>, chunks |-> <<>>, sources |-> <<>>, before |-> <<>>,
          cause |-> "none", results |-> <<>>, out |-> NoOut]

\* no thread has started and no request is being served
ThreadsInit ==
  /\ tpc = [t \in Threads |-> IF t \in WarmTasks THEN "unstarted" ELSE "idle"]
  /\ req = NoReq
  /\ calls = <<>>

\* the fields of the schema and the index ensure_collection creates the
\* collection with
Schema == <<"id", "text", "dense_vector", "source">>
Index == <<"dense_vector", "IVF_FLAT", "COSINE">>

\* the vector store without the collection; creates counts the
\* create_collection calls the store has served since the process started
NoCollection ==
  [exists |-> FALSE, rows |-> <<>>, schema |-> <<>>, index |-> <<>>, creates |-> 0]

\* the module globals as the imports leave them, an empty vector store
KbInit ==
  /\ db_client = 0
  /\ clients_made = 0
  /\ embedding_model = 0
  /\ models_made = 0
  /\ rag_graph = 0
  /\ graphs_made = 0
  /\ collection = NoCollection
  /\ ThreadsInit

\* the state of the parts of the program the run_agent cycle does not use
AuxInit == RetryInit /\ KbInit

\* no call is running
IdleInit ==
  /\ started = 0
  /\ pc = [c \in Cycles |-> "idle"]
  /\ session_id = [c \in Cycles |-> "s1"]
  /\ asked = [c \in Cycles |-> <<>>]
  /\ history = [c \in Cycles |-> <<>>]
  /\ state = [c \in Cycles |-> EmptyDict]
  /\ result = [c \in Cycles |-> NoResult]
  /\ num = [c \in Cycles |-> 0]
  /\ savers = [i \in SaverIds |-> IdleSaver]
  /\ trace = [c \in Cycles |-> <<>>]
  /\ ctxCalls = [c \in Cycles |-> 0]
  /\ ctxWindow = [c \in Cycles |-> <<>>]
  /\ graded = [c \in Cycles |-> "none"]
  /\ genContext = [c \in Cycles |-> <<>>]
  /\ zeroHits = [c \in Cycles |-> TRUE]
  /\ RetryInit

Init ==
  /\ redisUp \in BOOLEAN
  /\ redis_client = "None"
  \* s1 is a session an earlier run of the process used, the others are new
  /\ \E n \in 0..MaxPriorTurns :
       /\ store = [s \in Sessions |-> IF s = "s1" THEN ltrim(PriorTurns(n)) ELSE <<>>]
       /\ pushed = [s \in Sessions |-> IF s = "s1" THEN PriorMessages(n) ELSE <<>>]
  /\ IdleInit
  /\ KbInit

(***************************************************************************)
(* agent_app/graph.py: run_agent, up to graph.ainvoke.                     *)
(***************************************************************************)
\* the initial_state dict run_agent builds
initial_state(question, hist) ==
  [question |-> question,
   documents |-> <<>>,
   answer |-> <<>>,
   retrieval_count |-> 0,
   generation_count |-> 0,
   chat_history |-> hist]

\* context c calls run_agent(q, s): the history read, then the graph's entry
run_agent(c, questions, sessions) ==
  /\ pc[c] \in {"idle", "returned", "raised"}
  /\ \E q \in questions, s \in sessions :
       LET got == get_redis_sync(redis_client, redisUp)
           read == got.ok /\ redisUp
           hist == IF read THEN ParseHistory(store[s]) ELSE <<>>
       IN  /\ redis_client' = got.client
           /\ started' = started + 1
           /\ num' = [num EXCEPT ![c] = started + 1]
           /\ session_id' = [session_id EXCEPT ![c] = s]
           /\ asked' = [asked EXCEPT ![c] = q]
           /\ history' = [history EXCEPT ![c] = hist]
           /\ pc' = [pc EXCEPT ![c] = IF read THEN "retrieve" ELSE "raised"]
           /\ result' = [result EXCEPT ![c] = IF read THEN NoResult ELSE Raised]
           /\ state' = [state EXCEPT ![c] =
                 IF read THEN InvokeState(state[c], initial_state(q, hist))
                 ELSE state[c]]
  /\ trace' = [trace EXCEPT ![c] = <<>>]
  /\ ctxCalls' = [ctxCalls EXCEPT ![c] = 0]
  /\ ctxWindow' = [ctxWindow EXCEPT ![c] = <<>>]
  /\ graded' = [graded EXCEPT ![c] = "none"]
  /\ genContext' = [genContext EXCEPT ![c] = <<>>]
  /\ zeroHits' = [zeroHits EXCEPT ![c] = TRUE]
  /\ UNCHANGED <<redisUp, store, savers, pushed, auxVars>>

RunAgentStart(c) ==
  /\ started < MaxCycles
  /\ run_agent(c, Questions, Sessions)

(***************************************************************************)
(* One step of the compiled graph: the node the cycle is at runs, its      *)
(* update is merged into the state, the edges pick the next node.          *)
(***************************************************************************)
NoCall == <<>>
NoSearch == [kind |-> "none", results |-> <<>>]

GradeOutcome(st, llm) ==
  IF Get(st, "documents", <<>>) = <<>> THEN "skipped"
  ELSE IF SaysYes(llm) THEN "relevant" ELSE "irrelevant"

Superstep(c, llmOutcomes, searchOutcomes) ==
  /\ pc[c] \in Nodes
  /\ Get(state[c], "retrieval_count", 0) < MaxCount
  /\ Get(state[c], "generation_count", 0) < MaxCount
  /\ LET node == pc[c]
         st == state[c]
     IN \E llm \in (IF CallsLLM(node, st) THEN llmOutcomes ELSE {NoCall}),
           outcome \in (IF node = "retrieve" THEN searchOutcomes ELSE {NoSearch}) :
          IF llm = LLMError
            THEN \* call_llm raises: the exception leaves ainvoke and run_agent
                 /\ pc' = [pc EXCEPT ![c] = "raised"]
                 /\ result' = [result EXCEPT ![c] = Raised]
                 /\ UNCHANGED <<state, trace, ctxCalls, ctxWindow, graded,
                                genContext, zeroHits>>
            ELSE LET st2 == ApplyUpdate(st, NodeUpdate(node, st, llm, outcome))
                 IN  /\ state' = [state EXCEPT ![c] = st2]
                     /\ pc' = [pc EXCEPT ![c] = NextNode(node, st2)]
                     /\ trace' = [trace EXCEPT ![c] = Append(@, node)]
                     /\ ctxCalls' = [ctxCalls EXCEPT ![c] =
                          IF node = "retrieve" /\ Contextualizes(st) THEN @ + 1 ELSE @]
                     /\ ctxWindow' = [ctxWindow EXCEPT ![c] =
                          IF node = "retrieve" /\ Contextualizes(st)
                            THEN LastN(Get(st, "chat_history", <<>>), HistoryWindow)
                            ELSE @]
                     /\ graded' = [graded EXCEPT ![c] =
                          IF node = "grade" THEN GradeOutcome(st, llm) ELSE @]
                     /\ genContext' = [genContext EXCEPT ![c] =
                          IF node = "generate" THEN GenerateContext(st) ELSE @]
                     /\ zeroHits' = [zeroHits EXCEPT ![c] =
                          IF node = "retrieve"
                            THEN @ /\ outcome.kind = "ok" /\ outcome.results = <<>>
                            ELSE @]
                     /\ UNCHANGED result
  /\ UNCHANGED <<memVars, started, session_id, asked, history, num, auxVars>>

GraphStep(c) == Superstep(c, LLMOutcomes, SearchOutcomes)

(***************************************************************************)
(* agent_app/graph.py: run_agent after graph.ainvoke returned.             *)
(***************************************************************************)
\* variant: run_agent waits for the save and lets its failure out
RunAgentFinish_awaited(c) ==
  /\ pc[c] = END
  /\ LET answer == Get(state[c], "answer", NoAnswer)
     IN  /\ savers' = [savers EXCEPT ![num[c]] =
               [pc |-> IF redisUp THEN "push_user" ELSE "failed",
                session |-> session_id[c],
                question |-> asked[c], answer |-> answer]]
         /\ result' = [result EXCEPT ![c] =
               IF redisUp THEN Answer(answer) ELSE Raised]
  /\ pc' = [pc EXCEPT ![c] = IF redisUp THEN "returned" ELSE "raised"]
  /\ history' = [history EXCEPT ![c] = <<>>]
  /\ trace' = [trace EXCEPT ![c] = <<>>]
  /\ ctxCalls' = [ctxCalls EXCEPT ![c] = 0]
  /\ ctxWindow' = [ctxWindow EXCEPT ![c] = <<>>]
  /\ graded' = [graded EXCEPT ![c] = "none"]
  /\ genContext' = [genContext EXCEPT ![c] = <<>>]
  /\ zeroHits' = [zeroHits EXCEPT ![c] = TRUE]
  /\ UNCHANGED <<redisUp, redis_client, store, pushed, started, session_id,
                 asked, num, state, auxVars>>

RunAgentFinish(c) ==
  /\ pc[c] = END
  /\ LET answer == Get(state[c], "answer", NoAnswer)
     IN  /\ savers' = [savers EXCEPT ![num[c]] =
               [pc |-> "push_user", session |-> session_id[c],
                question |-> asked[c], answer |-> answer]]
         /\ result' = [result EXCEPT ![c] = Answer(answer)]
  /\ pc' = [pc EXCEPT ![c] = "returned"]
  \* the call's locals end with the call; state keeps the values the graph
  \* finished with, which a later ainvoke does not read
  /\ history' = [history EXCEPT ![c] = <<>>]
  /\ trace' = [trace EXCEPT ![c] = <<>>]
  /\ ctxCalls' = [ctxCalls EXCEPT ![c] = 0]
  /\ ctxWindow' = [ctxWindow EXCEPT ![c] = <<>>]
  /\ graded' = [graded EXCEPT ![c] = "none"]
  /\ genContext' = [genContext EXCEPT ![c] = <<>>]
  /\ zeroHits' = [zeroHits EXCEPT ![c] = TRUE]
  /\ UNCHANGED <<redisUp, redis_client, store, pushed, started, session_id,
                 asked, num, state, auxVars>>

(***************************************************************************)
(* agent_app/memory.py: the _save thread of save_history_background. Each  *)
(* add_message_sync is a push (get_redis_sync, rpush) and a trim (ltrim),  *)
(* two commands other threads can interleave with; any exception ends the   *)
(* thread in its except clause.                                            *)
(***************************************************************************)
SavePush(i) ==
  /\ savers[i].pc \in {"push_user", "push_assistant"}
  /\ LET sv == savers[i]
         got == get_redis_sync(redis_client, redisUp)
         ok == got.ok /\ redisUp
         role == IF sv.pc = "push_user" THEN UserRole ELSE AssistantRole
         content == IF sv.pc = "push_user" THEN sv.question ELSE sv.answer
         message == Encode(role, content)
     IN  /\ redis_client' = got.client
         /\ store' = IF ok
                       THEN [store EXCEPT ![sv.session] = Append(@, message)]
                       ELSE store
         /\ pushed' = IF ok
                        THEN [pushed EXCEPT ![sv.session] =
                                Append(@, [role |-> role, content |-> content])]
                        ELSE pushed
         /\ savers' = [savers EXCEPT ![i].pc =
               IF ~ok THEN "failed"
               ELSE IF sv.pc = "push_user" THEN "trim_user" ELSE "trim_assistant"]
  /\ UNCHANGED <<redisUp, callVars, obsVars, auxVars>>

SaveTrim(i) ==
  /\ savers[i].pc \in {"trim_user", "trim_assistant"}
  /\ LET sv == savers[i]
     IN  /\ store' = IF redisUp
                       THEN [store EXCEPT ![sv.session] = ltrim(@)]
                       ELSE store
         /\ savers' = [savers EXCEPT ![i].pc =
               IF ~redisUp THEN "failed"
               ELSE IF sv.pc = "trim_user" THEN "push_assistant" ELSE "done"]
  /\ UNCHANGED <<redisUp, redis_client, pushed, callVars, obsVars, auxVars>>

\* the key-value store becomes unreachable, or reachable again
RedisFlip ==
  /\ redisUp' = ~redisUp
  /\ UNCHANGED <<redis_client, store, savers, pushed, callVars, obsVars, auxVars>>

(***************************************************************************)
(* Spec: one caller, every LLM and search outcome, a store that fails and  *)
(* recovers, sessions that may hold turns of an earlier run.               *)
(***************************************************************************)
Next ==
  \/ \E c \in Callers : RunAgentStart(c)
  \/ \E c \in Callers : GraphStep(c)
  \/ \E c \in Callers : RunAgentFinish(c)
  \/ \E i \in SaverIds : SavePush(i)
  \/ \E i \in SaverIds : SaveTrim(i)
  \/ RedisFlip

Spec == Init /\ [][Next]_vars

(***************************************************************************)
(* GraphSpec: the compiled graph run from any node on any graph state, to  *)
(* exercise every node and every edge of build_graph.                      *)
(***************************************************************************)
GraphDocuments == { <<>>, <<NoDocsFound>>, <<NoDocsFound, SearchErrorPrefix \o ExcText>> }

GraphStates ==
  [question : Questions,
   documents : GraphDocuments,
   answer : { <<>>, <<"n", "o">> },
   retrieval_count : 0..MAX_RETRIEVAL_ATTEMPTS,
   generation_count : 0..MAX_GENERATION_ATTEMPTS]

GraphInit ==
  /\ redisUp = TRUE
  /\ redis_client = "None"
  /\ store = [s \in Sessions |-> <<>>]
  /\ pushed = [s \in Sessions |-> <<>>]
  /\ AuxInit
  /\ started = 1
  /\ pc \in [Cycles -> Nodes \cup {"idle"}]
  /\ \A c \in Cycles : pc[c] = "idle" <=> c \notin Callers
  /\ session_id = [c \in Cycles |-> "s1"]
  /\ asked = [c \in Cycles |-> <<>>]
  /\ history = [c \in Cycles |-> <<>>]
  /\ state \in [Cycles -> GraphStates \cup {EmptyDict}]
  /\ \A c \in Cycles : state[c] = EmptyDict <=> c \notin Callers
  /\ result = [c \in Cycles |-> NoResult]
  /\ num = [c \in Cycles |-> IF c \in Callers THEN 1 ELSE 0]
  /\ savers = [i \in SaverIds |-> IdleSaver]
  /\ trace = [c \in Cycles |-> <<>>]
  /\ ctxCalls = [c \in Cycles |-> 0]
  /\ ctxWindow = [c \in Cycles |-> <<>>]
  /\ graded = [c \in Cycles |-> "none"]
  /\ genContext = [c \in Cycles |-> <<>>]
  /\ zeroHits = [c \in Cycles |-> TRUE]

GraphNext == \E c \in Callers : GraphStep(c)

GraphSpec == GraphInit /\ [][GraphNext]_vars

(***************************************************************************)
(* ConcSpec: two callers whose run_agent calls overlap, on the same or on  *)
(* different sessions, the store reachable, the LLM answering "no" and the *)
(* search finding one chunk.                                               *)
(***************************************************************************)
ConcInit ==
  /\ Init
  /\ redisUp
  /\ store = [s \in Sessions |-> <<>>]

ConcRunAgentStart(c) ==
  /\ started < MaxConcCycles
  /\ run_agent(c, Questions, Sessions)

ConcGraphStep(c) ==
  Superstep(c, { <<"n", "o">> }, { [kind |-> "ok", results |-> <<[text |-> D1]>>] })

ConcNext ==
  \/ \E c \in Cycles : ConcRunAgentStart(c)
  \/ \E c \in Cycles : ConcGraphStep(c)
  \/ \E c \in Cycles : RunAgentFinish(c)
  \/ \E i \in SaverIds : SavePush(i)
  \/ \E i \in SaverIds : SaveTrim(i)

ConcSpec == ConcInit /\ [][ConcNext]_vars

(***************************************************************************)
(* MemSpec: ConversationMemory on its own. Turns are saved by _save        *)
(* threads, get_history_sync and clear_sync are called beside them, the    *)
(* store fails and recovers, and the session s1 starts close to the cap of *)
(* its list.                                                               *)
(***************************************************************************)
MemPriorTurns == {HistoryCap \div 2 - 1, HistoryCap \div 2}
MemSessions == {"s1"}

\* the turn the k-th save is called with: a question with a colon and an
\* empty answer, or a plain question and a plain answer
MemTurn(k) ==
  IF k % 2 = 1 THEN [question |-> <<"a", ":", "b">>, answer |-> <<>>]
  ELSE [question |-> <<"q", "?">>, answer |-> <<"n", "o">>]
MemOps == {"get_history", "clear"}

MemInit ==
  /\ redisUp \in BOOLEAN
  /\ redis_client = "None"
  /\ \E n \in MemPriorTurns :
       /\ store = [s \in Sessions |-> IF s = "s1" THEN ltrim(PriorTurns(n)) ELSE <<>>]
       /\ pushed = [s \in Sessions |-> IF s = "s1" THEN PriorMessages(n) ELSE <<>>]
  /\ IdleInit
  /\ KbInit

\* save_history_background(session_id, user_msg, assistant_msg)
save_history_background(i) ==
  /\ started < MaxSaves
  /\ i = started + 1
  /\ \E s \in MemSessions :
       savers' = [savers EXCEPT ![i] =
                    [pc |-> "push_user", session |-> s,
                     question |-> MemTurn(i).question,
                     answer |-> MemTurn(i).answer]]
  /\ started' = started + 1
  /\ UNCHANGED <<redisUp, redis_client, store, pushed, pc, session_id, asked,
                 history, state, result, num, obsVars, auxVars>>

\* context c calls get_history_sync or clear_sync: get_redis_sync
MemCall(c) ==
  /\ pc[c] = "idle"
  /\ \E op \in MemOps, s \in MemSessions :
       LET got == get_redis_sync(redis_client, redisUp)
       IN  /\ redis_client' = got.client
           /\ session_id' = [session_id EXCEPT ![c] = s]
           /\ pc' = [pc EXCEPT ![c] = IF got.ok THEN op ELSE "idle"]
           /\ result' = [result EXCEPT ![c] = IF got.ok THEN NoResult ELSE Raised]
  /\ UNCHANGED <<redisUp, store, savers, pushed, started, asked, history, state,
                 num, obsVars, auxVars>>

\* the command of the call: lrange and the parsing loop, or delete
MemCommand(c) ==
  /\ pc[c] \in MemOps
  /\ pc' = [pc EXCEPT ![c] = "idle"]
  /\ result' = [result EXCEPT ![c] = IF redisUp THEN NoResult ELSE Raised]
  /\ history' = [history EXCEPT ![c] =
        IF redisUp /\ pc[c] = "get_history"
          THEN ParseHistory(store[session_id[c]]) ELSE @]
  /\ store' = IF redisUp /\ pc[c] = "clear"
                THEN [store EXCEPT ![session_id[c]] = <<>>] ELSE store
  /\ pushed' = IF redisUp /\ pc[c] = "clear"
                 THEN [pushed EXCEPT ![session_id[c]] = <<>>] ELSE pushed
  /\ UNCHANGED <<redisUp, redis_client, savers, started, session_id, asked, state,
                 num, obsVars, auxVars>>

MemNext ==
  \/ \E i \in SaverIds : save_history_background(i)
  \/ \E i \in SaverIds : SavePush(i)
  \/ \E i \in SaverIds : SaveTrim(i)
  \/ \E c \in Callers : MemCall(c)
  \/ \E c \in Callers : MemCommand(c)
  \/ RedisFlip

MemSpec == MemInit /\ [][MemNext]_vars

(***************************************************************************)
(* The @retry decorators of agent_app/tools.py (call_llm) and of           *)
(* mcp_server/db.py (MilvusDB.connect): tenacity's loop of attempt, retry   *)
(* predicate, stop condition and wait.                                     *)
(***************************************************************************)
RetryFunctions == {"call_llm", "connect"}

Returns(value) == [kind |-> "ok", value |-> value, exc |-> "none"]
Raises(exc) == [kind |-> "error", value |-> <<>>, exc |-> exc]

\* what one attempt of call_llm can do: post() fails to reach the gateway,
\* raise_for_status() rejects the status, response.json() or the lookup of
\* data["message"]["content"] fails on the body, or the content is returned
CallLLMOutcomes ==
  {Returns(t) : t \in LLMTexts}
    \cup {Raises(e) : e \in {"ConnectError", "HTTPStatusError", "JSONDecodeError", "KeyError"}}

\* what one attempt of connect can do: MilvusClient(uri) cannot reach the
\* server (MilvusException), rejects the uri (ConnectionConfigException, a
\* MilvusException), fails otherwise, or the client is made
ConnectOutcomes ==
  {Returns(<<"c", "l", "i", "e", "n", "t">>)}
    \cup {Raises(e) : e \in {"MilvusException", "ConnectionConfigException", "TypeError"}}

AttemptOutcomes(fn) == IF fn = "call_llm" THEN CallLLMOutcomes ELSE ConnectOutcomes

IsMilvusException(exc) == exc \in {"MilvusException", "ConnectionConfigException"}

\* retry=: call_llm names none, so every exception is retried; connect names
\* retry_if_exception_type(MilvusException)
retry_if_exception_type(fn, exc) ==
  IF fn = "call_llm" THEN TRUE ELSE IsMilvusException(exc)

LLM_STOP_AFTER == 3
CONNECT_STOP_AFTER == 3

\* variant: the stop condition lets one attempt more through
stop_after_attempt_late(fn, attempt_number) ==
  attempt_number > (IF fn = "call_llm" THEN LLM_STOP_AFTER ELSE CONNECT_STOP_AFTER)

stop_after_attempt(fn, attempt_number) ==
  attempt_number >= (IF fn = "call_llm" THEN LLM_STOP_AFTER ELSE CONNECT_STOP_AFTER)

LLM_WAIT_MIN == 1
LLM_WAIT_MAX == 10
CONNECT_WAIT_MULTIPLIER == 1
CONNECT_WAIT_MIN == 2
CONNECT_WAIT_MAX == 10

\* wait=: multiplier * 2^(attempt_number - 1), kept within [min, max]
wait_exponential(fn, attempt_number) ==
  LET multiplier == IF fn = "call_llm" THEN 1 ELSE CONNECT_WAIT_MULTIPLIER
      lo == IF fn = "call_llm" THEN LLM_WAIT_MIN ELSE CONNECT_WAIT_MIN
      hi == IF fn = "call_llm" THEN LLM_WAIT_MAX ELSE CONNECT_WAIT_MAX
  IN  Max(Max(0, lo), Min(multiplier * 2 ^ (attempt_number - 1), hi))

\* a caller invokes the decorated function
RetryCall(fn) ==
  /\ retry_status \in {"idle", "returned", "raised"}
  /\ retry_fn' = fn
  /\ retry_status' = "attempting"
  /\ attempts' = <<>>
  /\ sleeps' = <<>>
  /\ surfaced' = NoOutcome
  /\ UNCHANGED <<memVars, callVars, obsVars, kbVars>>

\* one attempt, and tenacity's decision on its outcome
RetryAttempt ==
  /\ retry_status = "attempting"
  /\ \E outcome \in AttemptOutcomes(retry_fn) :
       LET attempt_number == Len(attempts) + 1
       IN  /\ attempts' = Append(attempts, outcome)
           /\ IF outcome.kind = "ok"
                \/ ~retry_if_exception_type(retry_fn, outcome.exc)
                THEN \* the attempt's own result: its value or its exception
                     /\ retry_status' = IF outcome.kind = "ok" THEN "returned"
                                        ELSE "raised"
                     /\ surfaced' = outcome
                     /\ sleeps' = sleeps
                ELSE IF stop_after_attempt(retry_fn, attempt_number)
                THEN /\ retry_status' = "raised"
                     /\ surfaced' = Raises("RetryError")
                     /\ sleeps' = sleeps
                ELSE /\ retry_status' = "sleeping"
                     /\ surfaced' = surfaced
                     /\ sleeps' = Append(sleeps,
                                         wait_exponential(retry_fn, attempt_number))
  /\ UNCHANGED <<retry_fn, memVars, callVars, obsVars, kbVars>>

\* the wait between two attempts is over
RetrySleep ==
  /\ retry_status = "sleeping"
  /\ retry_status' = "attempting"
  /\ UNCHANGED <<retry_fn, attempts, sleeps, surfaced, memVars, callVars, obsVars,
                 kbVars>>

RetryNext ==
  \/ \E fn \in RetryFunctions : RetryCall(fn)
  \/ RetryAttempt
  \/ RetrySleep

RetrySpec == Init /\ [][RetryNext]_vars

(***************************************************************************)
(* mcp_server/ingestion.py: _get_embedding_model and generate_embeddings,  *)
(* as the steps of the thread that runs them.                              *)
(***************************************************************************)
\* where thread t goes on after the embeddings, or after the model alone
AfterModel(t) == IF t = "load_model" THEN "done" ELSE "encode"
AfterEncode(op) ==
  IF op \in {"search", "chat"} THEN "db_search" ELSE "ensure_collection"

\* the answer of ingest_document to an exception: except ValueError, except
\* Exception
ingest_document_error(cause, message) ==
  IF cause = "ValueError"
    THEN \* f"Error: {e}"
         <<"E","r","r","o","r",":"," ">> \o message
    ELSE \* f"Error: Ingestion failed - {e}"
         <<"E","r","r","o","r",":"," ","I","n","g","e","s","t","i","o","n"," ","f","a","i","l","e","d"," ","-"," ">>
           \o message

\* variant: the exception leaves search_knowledge_base
Fails_propagating(r, cause, message) ==
  [r EXCEPT !.cause = cause, !.out = [kind |-> "raised", value |-> message]]

\* the call of the request thread ends: search_knowledge_base turns every
\* exception into its error string, ingest_file lets it out, the tool
\* ingest_document answers with the message of the exception
Fails(r, cause, message) ==
  [r EXCEPT !.cause = cause,
            !.out = IF r.op = "ingest"
                      THEN [kind |-> "raised", value |-> message]
                    ELSE IF r.op = "ingest_document"
                      THEN [kind |-> "returned",
                            value |-> ingest_document_error(cause, message)]
                      ELSE [kind |-> "returned",
                            value |-> search_knowledge_base(r.query,
                               [kind |-> "raise", results |-> <<>>,
                                error |-> message])]]

\* if _embedding_model is None
ModelCheck(t) ==
  /\ tpc[t] = "model_check"
  /\ tpc' = [tpc EXCEPT ![t] =
        IF embedding_model = 0 THEN "model_load" ELSE AfterModel(t)]
  /\ UNCHANGED <<db_client, clients_made, embedding_model, models_made, rag_graph,
                 graphs_made, collection, req, calls>>
  /\ UNCHANGED <<memVars, callVars, obsVars, retryVars>>

\* _embedding_model = SentenceTransformer(EMBEDDING_MODEL), or its exception
ModelLoad(t) ==
  /\ tpc[t] = "model_load"
  /\ \E ok \in BOOLEAN :
       IF ok
         THEN /\ models_made' = models_made + 1
              /\ embedding_model' = models_made + 1
              /\ tpc' = [tpc EXCEPT ![t] = AfterModel(t)]
              /\ req' = req
         ELSE /\ UNCHANGED <<models_made, embedding_model>>
              /\ tpc' = [tpc EXCEPT ![t] = IF t = "request" THEN "idle" ELSE "done"]
              /\ req' = IF t = "request" THEN Fails(req, "embedding", ExcText)
                        ELSE req
  /\ UNCHANGED <<db_client, clients_made, rag_graph, graphs_made, collection, calls>>
  /\ UNCHANGED <<memVars, callVars, obsVars, retryVars>>

\* model.encode(texts), or the exception of it
EmbedDocuments(t) ==
  /\ tpc[t] = "encode"
  /\ \E ok \in BOOLEAN :
       IF ok
         THEN /\ tpc' = [tpc EXCEPT ![t] = AfterEncode(req.op)]
              /\ req' = req
         ELSE /\ tpc' = [tpc EXCEPT ![t] = "idle"]
              /\ req' = Fails(req, "embedding", ExcText)
  /\ calls' = Append(calls, "encode")
  /\ UNCHANGED <<db_client, clients_made, embedding_model, models_made, rag_graph,
                 graphs_made, collection>>
  /\ UNCHANGED <<memVars, callVars, obsVars, retryVars>>

(***************************************************************************)
(* agent_app/tools.py: search_knowledge_base called on its own, with or    *)
(* without a connection of db.                                             *)
(***************************************************************************)
\* TOP_K of mcp_server/config.py, the default of db.search
TOP_K == 5

\* queries and limits search_knowledge_base is called with
SearchQueries == Questions \cup { <<>> }
TopKs == 1..TOP_K

\* search_knowledge_base(query, top_k) is called
SearchCall(t) ==
  /\ tpc[t] = "idle"
  /\ \E q \in SearchQueries, k \in TopKs :
       req' = [NoReq EXCEPT !.op = "search", !.query = q, !.top_k = k]
  /\ tpc' = [tpc EXCEPT ![t] = "model_check"]
  /\ calls' = <<>>
  /\ UNCHANGED <<db_client, clients_made, embedding_model, models_made, rag_graph,
                 graphs_made, collection>>
  /\ UNCHANGED <<memVars, callVars, obsVars, retryVars>>

\* db.search: _check_connection, client.search, and the formatting of the
\* hits by search_knowledge_base
DbSearch(t) ==
  /\ tpc[t] = "db_search"
  /\ IF db_client = 0
       THEN req' = Fails(req, "not_connected", NotConnected)
       ELSE \E found \in SearchOutcomes :
              LET \* limit=top_k
                  outcome == [found EXCEPT !.results = Take(@, req.top_k)]
              IN
              req' = IF outcome.kind = "raise"
                       THEN Fails(req, "search", outcome.error)
                       ELSE [req EXCEPT
                               !.results = outcome.results,
                               !.out = [kind |-> "returned",
                                        value |-> search_knowledge_base(req.query,
                                                                        outcome)]]
  /\ tpc' = [tpc EXCEPT ![t] = "idle"]
  /\ calls' = Append(calls, "search")
  /\ UNCHANGED <<db_client, clients_made, embedding_model, models_made, rag_graph,
                 graphs_made, collection>>
  /\ UNCHANGED <<memVars, callVars, obsVars, retryVars>>

\* a process that has or has not connected db and loaded the model, with a
\* vector store that has or has not the collection
GatewayInit ==
  /\ redisUp = TRUE
  /\ redis_client = "None"
  /\ store = [s \in Sessions |-> <<>>]
  /\ pushed = [s \in Sessions |-> <<>>]
  /\ IdleInit
  /\ db_client \in {0, 1}
  /\ clients_made = db_client
  /\ embedding_model \in {0, 1}
  /\ models_made = embedding_model
  /\ rag_graph = 0
  /\ graphs_made = 0
  \* no collection, or the one an earlier run of ensure_collection left
  /\ collection \in
       { NoCollection,
         [NoCollection EXCEPT !.exists = TRUE, !.schema = Schema, !.index = Index] }
  /\ ThreadsInit

SearchNext ==
  \/ SearchCall("request")
  \/ ModelCheck("request")
  \/ ModelLoad("request")
  \/ EmbedDocuments("request")
  \/ DbSearch("request")

\* SearchSpec: calls of search_knowledge_base one after the other
SearchSpec == GatewayInit /\ [][SearchNext]_vars

(***************************************************************************)
(* mcp_server/ingestion.py: ingest_file(file_path, db), and the methods of *)
(* mcp_server/db.py it calls.                                              *)
(***************************************************************************)
\* the keys of LOADERS, in the order of the dict
LoaderKeys ==
  << <<".","p","d","f">>,
     <<".","d","o","c","x">>,
     <<".","d","o","c">>,
     <<".","p","p","t","x">>,
     <<".","p","p","t">>,
     <<".","x","l","s","x">>,
     <<".","x","l","s">>,
     <<".","t","x","t">>,
     <<".","m","d">> >>

\* ext in LOADERS
LOADERS == { LoaderKeys[i] : i \in DOMAIN LoaderKeys }

\* the texts a page of a file can hold: blank, plain, with white space around
PageTexts == { <<" ", "\n">>, <<"a">>, <<" ", "b", " ">> }

\* the lists of at most n pages
RECURSIVE PageLists(_)
PageLists(n) ==
  IF n = 0 THEN { <<>> }
  ELSE PageLists(n - 1)
       \cup { Append(l, p) : l \in { l \in PageLists(n - 1) : Len(l) = n - 1 },
                             p \in PageTexts }

\* paths ingest_file is called with: a supported extension, one in upper
\* case on a file in a directory, an unsupported one, none, a name that is
\* only a leading dot and an extension, a dot in the directory only
Paths ==
  { <<"a",".","t","x","t">>, <<"f","/","g",".","P","D","F">>,
    <<"c",".","e","x","e">>, <<"d">>, <<".","t","x","t">>, <<"x",".","d","/","e">> }

\* Path(file_path).name: the path after its last separator
Name(path) ==
  IF \E i \in 1..Len(path) : path[i] = "/"
    THEN LET i == CHOOSE i \in 1..Len(path) :
                    path[i] = "/" /\ \A j \in (i + 1)..Len(path) : path[j] # "/"
         IN  SubSeq(path, i + 1, Len(path))
    ELSE path

\* Path(file_path).suffix: the name from its last dot on, "" when it has no
\* dot or only a leading or a trailing one
Suffix(path) ==
  LET name == Name(path)
  IN  IF \E i \in 2..(Len(name) - 1) : name[i] = "."
            /\ \A j \in (i + 1)..Len(name) : name[j] # "."
        THEN LET i == CHOOSE i \in 2..(Len(name) - 1) :
                        name[i] = "." /\ \A j \in (i + 1)..Len(name) : name[j] # "."
             IN  SubSeq(name, i, Len(name))
        ELSE <<>>

\* the files: under each path none, or a content its loader fails on, or
\* the pages its loader returns (none where no loader is tried)
Files ==
  [path : Paths, exists : {FALSE}, pages : { <<>> }, corrupt : {FALSE}]
    \cup [path : Paths, exists : {TRUE}, pages : { <<>> }, corrupt : {TRUE}]
    \cup { f \in [path : Paths, exists : {TRUE}, pages : PageLists(MaxPages),
                   corrupt : {FALSE}] :
             Lower(Suffix(f.path)) \in LOADERS \/ f.pages = <<>> }

\* variant: blank pages are loaded as well
NonBlank_all(texts) == texts

\* [t for t in texts if t.strip()]
NonBlank(texts) == SelectSeq(texts, LAMBDA t : Strip(t) # <<>>)

\* splitter.split_text(text) for a text shorter than the chunk size (1000
\* characters unless configured otherwise): the text as one chunk, stripped,
\* and no chunk for a blank text
split_text(text) == IF Strip(text) = <<>> THEN <<>> ELSE <<Strip(text)>>

\* variant: the chunks are tagged with the name of the file
Tagged_named(source, text_chunks) == [i \in 1..Len(text_chunks) |-> Name(source)]

\* [source] * len(text_chunks)
Tagged(source, text_chunks) == [i \in 1..Len(text_chunks) |-> source]

\* chunk_text(texts, source): the chunks of the non-blank texts in order,
\* and the source once per chunk
RECURSIVE chunk_text(_, _)
chunk_text(texts, source) ==
  IF texts = <<>> THEN [chunks |-> <<>>, sources |-> <<>>]
  ELSE LET rest == chunk_text(Tail(texts), source)
           text_chunks == IF Strip(Head(texts)) # <<>> THEN split_text(Head(texts))
                          ELSE <<>>
       IN  [chunks |-> text_chunks \o rest.chunks,
            sources |-> Tagged(source, text_chunks) \o rest.sources]

\* zip(texts, embeddings, sources) as the rows _insert_sync sends
InsertData(texts, embeddings, sources) ==
  [i \in 1..Min(Len(texts), Min(Len(embeddings), Len(sources))) |->
     [text |-> texts[i], source |-> sources[i]]]

\* what a call that ends with count chunks stored gives its caller: the
\* count from ingest_file, a sentence from ingest_document
IngestReturn(r, count) ==
  [r EXCEPT !.out =
     [kind |-> "returned",
      value |->
        IF r.op = "ingest" THEN count
        ELSE IF count = 0
          THEN \* f"Warning: No content extracted from {path.name}"
               <<"W","a","r","n","i","n","g",":"," ","N","o"," ","c","o","n","t","e","n","t"," ","e","x","t","r","a","c","t","e","d"," ","f","r","o","m"," ">>
                 \o Name(r.file.path)
          ELSE \* f"Ingested {count} chunks from '{path.name}'"
               <<"I","n","g","e","s","t","e","d"," ">> \o Digit(count)
                 \o <<" ","c","h","u","n","k","s"," ","f","r","o","m"," ","'">>
                 \o Name(r.file.path) \o <<"'">>]]

\* f"Error: File not found - {file_path}"
ToolNotFound(file_path) ==
  <<"E","r","r","o","r",":"," ","F","i","l","e"," ","n","o","t"," ","f","o","u","n","d"," ","-"," ">>
    \o file_path

\* ingest_file(file_path, db) is called, as the upload handler does, or the
\* tool ingest_document(file_path) around it; the tool returns at once when
\* the path does not exist
IngestCall(t) ==
  /\ tpc[t] = "idle"
  /\ Len(collection.rows) < MaxRows
  /\ \E f \in Files, op \in {"ingest", "ingest_document"} :
       LET r == [NoReq EXCEPT !.op = op, !.file = f, !.before = collection.rows]
       IN  IF op = "ingest_document" /\ ~f.exists
             THEN /\ req' = [r EXCEPT !.cause = "not_found",
                                      !.out = [kind |-> "returned",
                                               value |-> ToolNotFound(f.path)]]
                  /\ tpc' = tpc
             ELSE /\ req' = r
                  /\ tpc' = [tpc EXCEPT ![t] = "load"]
  /\ calls' = <<>>
  /\ UNCHANGED <<db_client, clients_made, embedding_model, models_made, rag_graph,
                 graphs_made, collection>>
  /\ UNCHANGED <<memVars, callVars, obsVars, retryVars>>

\* variant: the loader is tried on a path that does not exist
load_document_unchecked(f) ==
  IF Lower(Suffix(f.path)) \notin LOADERS
    THEN [kind |-> "raise", cause |-> "ValueError", texts |-> <<>>,
          message |-> UnsupportedType \o Lower(Suffix(f.path)) \o SupportedTypes
                        \o Join(<<",", " ">>, LoaderKeys)]
  ELSE IF f.corrupt \/ ~f.exists
    THEN [kind |-> "raise", cause |-> "loader", texts |-> <<>>, message |-> ExcText]
  ELSE [kind |-> "ok", cause |-> "none", texts |-> NonBlank(f.pages), message |-> <<>>]

\* _load_document_sync(file_path): the exception it raises, with its
\* message, or the non-blank page texts of the file
load_document(f) ==
  IF ~f.exists
    THEN [kind |-> "raise", cause |-> "FileNotFoundError", texts |-> <<>>,
          message |-> FileNotFound \o f.path]
  ELSE IF Lower(Suffix(f.path)) \notin LOADERS
    THEN [kind |-> "raise", cause |-> "ValueError", texts |-> <<>>,
          message |-> UnsupportedType \o Lower(Suffix(f.path)) \o SupportedTypes
                        \o Join(<<",", " ">>, LoaderKeys)]
  ELSE IF f.corrupt
    THEN [kind |-> "raise", cause |-> "loader", texts |-> <<>>, message |-> ExcText]
  ELSE [kind |-> "ok", cause |-> "none", texts |-> NonBlank(f.pages), message |-> <<>>]

\* texts = await load_document(file_path), and the return of 0 when it
\* gives no text
LoadDocument(t) ==
  /\ tpc[t] = "load"
  /\ LET loaded == load_document(req.file)
     IN  IF loaded.kind = "raise"
           THEN /\ req' = Fails(req, loaded.cause, loaded.message)
                /\ tpc' = [tpc EXCEPT ![t] = "idle"]
         ELSE IF loaded.texts = <<>>
           THEN /\ req' = IngestReturn(req, 0)
                /\ tpc' = [tpc EXCEPT ![t] = "idle"]
         ELSE /\ req' = [req EXCEPT !.texts = loaded.texts]
              /\ tpc' = [tpc EXCEPT ![t] = "chunk"]
  /\ UNCHANGED <<db_client, clients_made, embedding_model, models_made, rag_graph,
                 graphs_made, collection, calls>>
  /\ UNCHANGED <<memVars, callVars, obsVars, retryVars>>

\* chunk_text, and the return of 0 when it gives no chunk
ChunkText(t) ==
  /\ tpc[t] = "chunk"
  /\ LET split == chunk_text(req.texts, req.file.path)
     IN  IF split.chunks = <<>>
           THEN /\ req' = IngestReturn(req, 0)
                /\ tpc' = [tpc EXCEPT ![t] = "idle"]
           ELSE /\ req' = [req EXCEPT !.chunks = split.chunks,
                                      !.sources = split.sources]
                /\ tpc' = [tpc EXCEPT ![t] = "model_check"]
  /\ UNCHANGED <<db_client, clients_made, embedding_model, models_made, rag_graph,
                 graphs_made, collection, calls>>
  /\ UNCHANGED <<memVars, callVars, obsVars, retryVars>>

\* variant: the collection is created without asking for it first
ensured_always(coll) ==
  [coll EXCEPT !.exists = TRUE, !.schema = Schema, !.index = Index,
               !.creates = @ + 1]

\* the collection after an ensure_collection that raised nothing: as it was
\* when has_collection answers yes, else created with the schema and index
ensured(coll) ==
  IF coll.exists THEN coll
  ELSE [coll EXCEPT !.exists = TRUE, !.schema = Schema, !.index = Index,
                    !.creates = @ + 1]

\* db.ensure_collection(): _check_connection, has_collection, and the
\* creation of the collection when it is not there; a call of the client
\* may raise
ensure_collection(t) ==
  /\ tpc[t] = "ensure_collection"
  /\ calls' = Append(calls, "ensure_collection")
  /\ IF db_client = 0
       THEN /\ req' = Fails(req, "not_connected", NotConnected)
            /\ tpc' = [tpc EXCEPT ![t] = "idle"]
            /\ collection' = collection
       ELSE \E ok \in BOOLEAN :
              IF ok
                THEN /\ collection' = ensured(collection)
                     /\ tpc' = [tpc EXCEPT ![t] = "insert"]
                     /\ req' = req
                ELSE /\ collection' = collection
                     /\ tpc' = [tpc EXCEPT ![t] = "idle"]
                     /\ req' = Fails(req, "milvus", ExcText)
  /\ UNCHANGED <<db_client, clients_made, embedding_model, models_made, rag_graph,
                 graphs_made>>
  /\ UNCHANGED <<memVars, callVars, obsVars, retryVars>>

\* db.insert(chunks, embeddings, sources), and the return of its count
insert(t) ==
  /\ tpc[t] = "insert"
  /\ calls' = Append(calls, "insert")
  /\ tpc' = [tpc EXCEPT ![t] = "idle"]
  /\ IF db_client = 0
       THEN /\ req' = Fails(req, "not_connected", NotConnected)
            /\ collection' = collection
       ELSE \E ok \in BOOLEAN :
              LET data == InsertData(req.chunks, generate_embeddings(req.chunks),
                                     req.sources)
              IN  IF ok
                    THEN /\ collection' = [collection EXCEPT !.rows = @ \o data]
                         /\ req' = IngestReturn(req, Len(data))
                    ELSE /\ collection' = collection
                         /\ req' = Fails(req, "milvus", ExcText)
  /\ UNCHANGED <<db_client, clients_made, embedding_model, models_made, rag_graph,
                 graphs_made>>
  /\ UNCHANGED <<memVars, callVars, obsVars, retryVars>>

IngestNext ==
  \/ IngestCall("request")
  \/ LoadDocument("request")
  \/ ChunkText("request")
  \/ ModelCheck("request")
  \/ ModelLoad("request")
  \/ EmbedDocuments("request")
  \/ ensure_collection("request")
  \/ insert("request")

\* IngestSpec: calls of ingest_file one after the other
IngestSpec == GatewayInit /\ [][IngestNext]_vars

(***************************************************************************)
(* agent_app/app.py: warm_up_resources and the chat input handler, with    *)
(* the lazy initializations they share: db.client, _embedding_model and,   *)
(* through run_agent, rag_graph. Of the cycle run_agent starts only the    *)
(* search of its retrieval is followed here.                               *)
(***************************************************************************)
\* where thread t goes on once db is connected
AfterDb(t) == IF t = "load_db" THEN "done" ELSE "graph_check"

\* the first step of a task of the pool
TaskEntry(t) ==
  CASE t = "load_db" -> "db_check"
    [] t = "load_model" -> "model_check"
    [] OTHER -> "import"

\* the warm-up thread submits its four tasks to the pool
warm_up_resources ==
  /\ \A t \in WarmTasks : tpc[t] = "unstarted"
  /\ tpc' = [t \in Threads |-> IF t \in WarmTasks THEN TaskEntry(t) ELSE tpc[t]]
  /\ UNCHANGED <<db_client, clients_made, embedding_model, models_made, rag_graph,
                 graphs_made, collection, req, calls>>
  /\ UNCHANGED <<memVars, callVars, obsVars, retryVars>>

\* load_graph and load_ingest: the import of a module
TaskImport(t) ==
  /\ tpc[t] = "import"
  /\ tpc' = [tpc EXCEPT ![t] = "done"]
  /\ UNCHANGED <<db_client, clients_made, embedding_model, models_made, rag_graph,
                 graphs_made, collection, req, calls>>
  /\ UNCHANGED <<memVars, callVars, obsVars, retryVars>>

\* the chat input handler runs: the script started the warm-up before it
ChatStart(t) ==
  /\ tpc[t] = "idle"
  /\ \A w \in WarmTasks : tpc[w] # "unstarted"
  /\ \E q \in Questions :
       req' = [NoReq EXCEPT !.op = "chat", !.query = q, !.top_k = TOP_K]
  /\ tpc' = [tpc EXCEPT ![t] = "db_check"]
  /\ calls' = <<>>
  /\ UNCHANGED <<db_client, clients_made, embedding_model, models_made, rag_graph,
                 graphs_made, collection>>
  /\ UNCHANGED <<memVars, callVars, obsVars, retryVars>>

\* if db.client is None
DbCheck(t) ==
  /\ tpc[t] = "db_check"
  /\ tpc' = [tpc EXCEPT ![t] = IF db_client = 0 THEN "connect" ELSE AfterDb(t)]
  /\ UNCHANGED <<db_client, clients_made, embedding_model, models_made, rag_graph,
                 graphs_made, collection, req, calls>>
  /\ UNCHANGED <<memVars, callVars, obsVars, retryVars>>

\* db.connect(): self.client = MilvusClient(uri), or the exception its
\* retries end with, which load_db logs and the handler reports
Connect(t) ==
  /\ tpc[t] = "connect"
  /\ \E ok \in BOOLEAN :
       IF ok
         THEN /\ clients_made' = clients_made + 1
              /\ db_client' = clients_made + 1
              /\ tpc' = [tpc EXCEPT ![t] = AfterDb(t)]
              /\ req' = req
         ELSE /\ UNCHANGED <<clients_made, db_client>>
              /\ tpc' = [tpc EXCEPT ![t] = IF t = "request" THEN "idle" ELSE "done"]
              /\ req' = IF t = "request"
                          THEN [req EXCEPT !.cause = "connect",
                                           !.out = [kind |-> "raised",
                                                    value |-> ExcText]]
                          ELSE req
  /\ UNCHANGED <<embedding_model, models_made, rag_graph, graphs_made, collection,
                 calls>>
  /\ UNCHANGED <<memVars, callVars, obsVars, retryVars>>

\* get_graph: if rag_graph is None
GraphCheck(t) ==
  /\ tpc[t] = "graph_check"
  /\ tpc' = [tpc EXCEPT ![t] = IF rag_graph = 0 THEN "graph_build" ELSE "model_check"]
  /\ UNCHANGED <<db_client, clients_made, embedding_model, models_made, rag_graph,
                 graphs_made, collection, req, calls>>
  /\ UNCHANGED <<memVars, callVars, obsVars, retryVars>>

\* get_graph: rag_graph = build_graph()
GraphBuild(t) ==
  /\ tpc[t] = "graph_build"
  /\ graphs_made' = graphs_made + 1
  /\ rag_graph' = graphs_made + 1
  /\ tpc' = [tpc EXCEPT ![t] = "model_check"]
  /\ UNCHANGED <<db_client, clients_made, embedding_model, models_made, collection,
                 req, calls>>
  /\ UNCHANGED <<memVars, callVars, obsVars, retryVars>>

WarmNext ==
  \/ warm_up_resources
  \/ \E t \in {"load_graph", "load_ingest"} : TaskImport(t)
  \/ ChatStart("request")
  \/ \E t \in {"load_db", "request"} : DbCheck(t)
  \/ \E t \in {"load_db", "request"} : Connect(t)
  \/ GraphCheck("request")
  \/ GraphBuild("request")
  \/ \E t \in {"load_model", "request"} : ModelCheck(t)
  \/ \E t \in {"load_model", "request"} : ModelLoad(t)
  \/ EmbedDocuments("request")
  \/ DbSearch("request")

WarmSpec == Init /\ [][WarmNext]_vars

(***************************************************************************)
(* Properties.                                                             *)
(***************************************************************************)
\* number of times node x occurs in a trace
Count(seq, x) == Cardinality({i \in DOMAIN seq : seq[i] = x})

Last(seq) == seq[Len(seq)]

\* the cycle of context c ran node n in the step from the unprimed state
Ran(c, n) == pc[c] = n /\ trace'[c] = Append(trace[c], n)

RetrievalCount(st) == Get(st, "retrieval_count", 0)
GenerationCount(st) == Get(st, "generation_count", 0)

\* C1: a cycle started by run_agent runs at most 3 Retrieve, 3 Grade and
\* 3 Rewrite steps, one Generate and one HallucinationCheck step, and as long
\* as it has not reached the end of the graph its next step can be taken
\* (each external call returning), so that no cycle runs forever or stalls.
C1_BoundedCycle ==
  \A c \in Cycles :
    /\ Count(trace[c], "retrieve") <= 3
    /\ Count(trace[c], "grade") <= 3
    /\ Count(trace[c], "rewrite") <= 3
    /\ Count(trace[c], "generate") <= 1
    /\ Count(trace[c], "hallucination_check") <= 1
    /\ Len(trace[c]) <= 3 * 3 + 1 + 1
    /\ pc[c] \in Nodes => ENABLED GraphStep(c)

C1_Witness ==
  \E c \in Cycles :
    /\ pc[c] = END
    /\ trace[c] = <<"retrieve", "grade", "generate", "hallucination_check">>

\* C2: the step after Grade is Generate when documents is non-empty,
\* otherwise Generate when retrieval_count >= 3, otherwise Rewrite; the step
\* after Rewrite is Retrieve.
C2_RoutingAfterGrade ==
  [][\A c \in Cycles :
       /\ Ran(c, "grade") =>
            pc'[c] = IF state'[c]["documents"] # <<>> THEN "generate"
                     ELSE IF state'[c]["retrieval_count"] >= 3 THEN "generate"
                     ELSE "rewrite"
       /\ Ran(c, "rewrite") => pc'[c] = "retrieve"]_vars

C2_Witness ==
  \E c \in Cycles :
    /\ Len(trace[c]) >= 3
    /\ SubSeq(trace[c], 1, 3) = <<"grade", "rewrite", "retrieve">>

\* C3: a Grade step that starts with non-empty documents leaves documents
\* empty when the LLM's response does not contain "yes", and unchanged when
\* it does.
C3_GradeClears ==
  [][\A c \in Cycles :
       (Ran(c, "grade") /\ state[c]["documents"] # <<>>) =>
          state'[c]["documents"] =
            IF graded'[c] = "relevant" THEN state[c]["documents"] ELSE <<>>]_vars

\* C4: when Grade judges the documents irrelevant the next step is Rewrite
\* if retrieval_count < 3 and Generate if retrieval_count >= 3, and Generate
\* is then entered with no documents.
C4_IrrelevantThenRewrite ==
  [][\A c \in Cycles :
       (Ran(c, "grade") /\ graded'[c] = "irrelevant") =>
          /\ pc'[c] = IF state'[c]["retrieval_count"] < 3 THEN "rewrite"
                      ELSE "generate"
          /\ pc'[c] = "generate" => state'[c]["documents"] = <<>>]_vars

\* C5: a cycle all of whose searches found no hit has run 3 Retrieve steps
\* when it generates, and the context of its generation prompt is
\* "No context available.".
C5_NoHitsNoContext ==
  \A c \in Cycles :
    (zeroHits[c] /\ Count(trace[c], "generate") >= 1) =>
       /\ Count(trace[c], "retrieve") = 3
       /\ Count(trace[c], "rewrite") = 2
       /\ genContext[c] = NoContext

\* C6: a cycle makes exactly one contextualization call, in its first
\* Retrieve and over at most 6 history entries, when the session history
\* read at its start is non-empty, and none when it is empty; the question
\* of the state is then the trimmed output of that call.
C6_ContextualizedOnce ==
  \A c \in Cycles :
    Count(trace[c], "retrieve") >= 1 =>
       /\ ctxCalls[c] = IF history[c] # <<>> THEN 1 ELSE 0
       /\ Len(ctxWindow[c]) <= 6
       /\ history[c] # <<>> => ctxWindow[c] = LastN(history[c], 6)

\* C7: a HallucinationCheck step changes no field of the graph state, it is
\* followed by the end of the graph whatever generation_count is, and no
\* Generate step follows it.
C7_CheckChangesNothing ==
  [][\A c \in Cycles :
       /\ pc[c] = "hallucination_check" =>
            /\ state'[c] = state[c]
            /\ pc'[c] \in {"hallucination_check", END, "raised"}
       /\ Ran(c, "hallucination_check") => pc'[c] = END
       /\ (trace[c] # <<>> /\ Last(trace[c]) = "hallucination_check") =>
            trace'[c] \in {trace[c], <<>>}]_vars

C7_Witness ==
  \E c \in Cycles :
    /\ pc[c] = END
    /\ Last(trace[c]) = "hallucination_check"
    /\ state[c]["documents"] # <<>>
    /\ state[c]["answer"] # <<>>
    /\ state[c]["generation_count"] = 0

\* C8: within a cycle 0 <= retrieval_count <= 3 and 0 <= generation_count
\* <= 2; Retrieve adds exactly 1 to retrieval_count, Generate adds exactly 1
\* to generation_count, every other step leaves both as they are.
C8_Counters ==
  [][\A c \in Cycles :
       /\ RetrievalCount(state'[c]) \in 0..3
       /\ GenerationCount(state'[c]) \in 0..2
       /\ \A n \in Nodes :
            Ran(c, n) =>
              /\ RetrievalCount(state'[c]) =
                   RetrievalCount(state[c]) + (IF n = "retrieve" THEN 1 ELSE 0)
              /\ GenerationCount(state'[c]) =
                   GenerationCount(state[c]) + (IF n = "generate" THEN 1 ELSE 0)
       /\ pc[c] \in Nodes =>
            /\ RetrievalCount(state'[c]) = RetrievalCount(state[c])
                 \/ Ran(c, "retrieve")
            /\ GenerationCount(state'[c]) = GenerationCount(state[c])
                 \/ Ran(c, "generate")]_vars

C8_Witness ==
  \E c \in Cycles :
    /\ pc[c] = END
    /\ RetrievalCount(state[c]) = 1
    /\ GenerationCount(state[c]) = 1

\* C9: every run_agent call that reaches the graph enters it at Retrieve
\* with retrieval_count = 0, generation_count = 0, documents = [], an empty
\* answer and the question it was called with, whatever cycles ran before
\* it or run beside it.
C9_FreshState ==
  [][\A c \in Cycles :
       (num'[c] # num[c] /\ pc'[c] # "raised") =>
          /\ pc'[c] = "retrieve"
          /\ state'[c]["retrieval_count"] = 0
          /\ state'[c]["generation_count"] = 0
          /\ state'[c]["documents"] = <<>>
          /\ state'[c]["answer"] = <<>>
          /\ state'[c]["question"] = asked'[c]
          /\ DOMAIN state'[c] \subseteq AgentState]_vars

C9_Witness ==
  \E c \in Cycles, d \in Cycles :
    /\ c # d
    /\ pc[c] = "retrieve"
    /\ trace[c] = <<>>
    /\ state[c]["documents"] = <<>>
    /\ session_id[d] = session_id[c]
    /\ pc[d] = "hallucination_check"
    /\ state[d]["documents"] # <<>>
    /\ num[c] > num[d]

\* C10: a run_agent call made while the key-value store is unreachable goes
\* on with an empty chat history: it enters the graph and raises nothing to
\* its caller.
C10_HistoryBestEffort ==
  [][\A c \in Cycles :
       (num'[c] # num[c] /\ ~redisUp) =>
          /\ pc'[c] = "retrieve"
          /\ history'[c] = <<>>
          /\ result'[c] # Raised]_vars

\* C11: run_agent returns the generated answer without waiting for the turn
\* to be saved: at the return the _save thread has pushed nothing yet, the
\* return raises nothing, and no later step of the thread, failed or not,
\* changes what the caller was given.
C11_ReturnBeforeSave ==
  [][\A c \in Cycles :
       /\ pc[c] = END => pc'[c] \in {END, "returned"}
       /\ (pc[c] = END /\ pc'[c] = "returned") =>
            /\ result'[c] = Answer(Get(state[c], "answer", NoAnswer))
            /\ savers'[num[c]].pc = "push_user"
            /\ store' = store
       /\ (pc[c] = "returned" /\ pc'[c] = "returned") =>
            result'[c] = result[c]]_vars

\* the caller has its answer and the save failed between its two pushes
C11_Witness ==
  \E c \in Cycles :
    /\ pc[c] = "returned"
    /\ result[c].kind = "answer"
    /\ savers[num[c]].pc = "failed"
    /\ Len(store[savers[num[c]].session]) % 2 = 1

\* C15: an invocation of call_llm or of MilvusDB.connect makes at most 3
\* attempts; a successful attempt is its last one and its result is what the
\* caller gets; when 3 attempts have failed an error is raised to the caller
\* and no further attempt follows.
C15_AtMostThreeAttempts ==
  /\ Len(attempts) <= 3
  /\ \A i \in DOMAIN attempts :
       attempts[i].kind = "ok" =>
         /\ i = Len(attempts)
         /\ retry_status = "returned"
         /\ surfaced = attempts[i]
  /\ (Len(attempts) = 3 /\ attempts[3].kind = "error") =>
       /\ retry_status = "raised"
       /\ surfaced.kind = "error"
  /\ retry_status \in {"returned", "raised"} => ~ENABLED RetryAttempt

C15_Witness ==
  /\ retry_fn = "connect"
  /\ Len(attempts) = 3
  /\ \A i \in 1..3 : attempts[i].kind = "error"
  /\ retry_status = "raised"

\* C16: call_llm and MilvusDB.connect retry only network failures: a failure
\* that is not one (a malformed response body, a rejected configuration) is
\* raised to the caller by the attempt it occurs in, without a retry.
C16_RetryOnlyNetwork ==
  \A i \in DOMAIN attempts :
    attempts[i].exc \in {"JSONDecodeError", "KeyError", "ConnectionConfigException",
                         "TypeError"} =>
      /\ i = Len(attempts)
      /\ retry_status = "raised"
      /\ surfaced = attempts[i]

\* the entries a session's list holds when add_message_sync has stored msgs
Stored(msgs) == [i \in DOMAIN msgs |-> Encode(msgs[i].role, msgs[i].content)]

\* an add_message_sync call on session s is between its rpush and its ltrim
MidAppend(s) ==
  \E i \in SaverIds :
    savers[i].session = s /\ savers[i].pc \in {"trim_user", "trim_assistant"}

\* C12: whenever no append on a session is between its push and its trim,
\* the session's list holds at most 20 entries, and they are the most
\* recently pushed messages in the order of their pushes.
C12_CappedAtTwenty ==
  \A s \in Sessions :
    ~MidAppend(s) =>
      /\ Len(store[s]) <= 20
      /\ store[s] = Stored(LastN(pushed[s], 20))

\* C13: a get_history_sync that returns on a session with at most 20
\* messages pushed since its last clear returns exactly those messages, in
\* the order of their pushes; it returns the empty list after a clear that
\* no push has followed.
C13_HistoryIsWhatWasAppended ==
  [][\A c \in Cycles :
       (/\ pc[c] = "get_history"
        /\ pc'[c] = "idle"
        /\ result'[c] # Raised
        /\ Len(pushed[session_id[c]]) <= 20) =>
          history'[c] = pushed[session_id[c]]]_vars

\* a read of 20 entries, the last two saved beside it
C13_Witness ==
  \E c \in Cycles :
    /\ pc[c] = "idle"
    /\ Len(history[c]) = 20
    /\ history[c][19] = [role |-> UserRole, content |-> <<"a", ":", "b">>]
    /\ history[c][20] = [role |-> AssistantRole, content |-> <<>>]
    /\ pushed[session_id[c]] = history[c]

\* C14: whatever a session's list holds decodes, entry by entry and with no
\* entry dropped, to the role and the content of the messages that were
\* pushed, contents with colons and empty contents included.
C14_RoundTrip ==
  \A s \in Sessions :
    /\ Len(ParseHistory(store[s])) = Len(store[s])
    /\ ParseHistory(store[s]) = LastN(pushed[s], Len(store[s]))

\* a read that returned a content with a colon and an empty content
C14_Witness ==
  \E c \in Cycles :
    /\ pc[c] = "idle"
    /\ history[c] = <<[role |-> UserRole, content |-> <<"a", ":", "b">>],
                      [role |-> AssistantRole, content |-> <<>>]>>

\* the blocks "[1] <text>", "[2] <text>", ... of the first n hits, with an
\* empty line between two blocks
RECURSIVE RankedBlocks(_, _)
RankedBlocks(results, n) ==
  IF n = 0 THEN <<>>
  ELSE (IF n = 1 THEN <<>> ELSE RankedBlocks(results, n - 1) \o <<"\n", "\n">>)
       \o <<"[", CHOOSE d \in {"1", "2", "3", "4", "5"} : <<d>> = Digit(n), "]", " ">>
       \o results[n].text

\* C17: search_knowledge_base always returns a string: one that starts with
\* "Error" when the embedding failed, when the vector search failed or when
\* db has no connection, and on hits the blocks "[i] <text>" in rank order
\* from 1 with an empty line between them.
C17_SearchNeverRaises ==
  (req.op = "search" /\ tpc["request"] = "idle") =>
     /\ req.out.kind = "returned"
     /\ req.cause \in {"embedding", "search", "not_connected"} =>
          Take(req.out.value, 5) = <<"E", "r", "r", "o", "r">>
     /\ (req.cause = "none" /\ req.results # <<>>) =>
          req.out.value = RankedBlocks(req.results, Len(req.results))

\* a search that returned two ranked hits
C17_Witness ==
  /\ req.op = "search"
  /\ tpc["request"] = "idle"
  /\ Len(req.results) = 2
  /\ req.out.value = <<"[", "1", "]", " ">> \o D1 \o <<"\n", "\n">>
                       \o <<"[", "2", "]", " ">> \o D2

\* C18: a cycle in which the LLM gateway has exhausted its retries, or the
\* search has failed, still ends with run_agent returning a string: no step
\* of a cycle raises to run_agent's caller.
C18_CycleNeverRaises ==
  [][\A c \in Cycles :
       pc[c] \in Nodes =>
         /\ pc'[c] \in Nodes \cup {END}
         /\ result'[c] # Raised]_vars

\* C19: however the warm-up tasks and a request interleave, the request does
\* its initializations itself whenever it finds them not done, without
\* waiting for the warm-up, and the vector-store client, the embedding model
\* and the compiled graph are each made at most once, so that none is ever
\* replaced by a second instance.
C19_InitializedOnce ==
  /\ tpc["request"] = "connect" => ENABLED Connect("request")
  /\ tpc["request"] = "model_load" => ENABLED ModelLoad("request")
  /\ tpc["request"] = "graph_build" => ENABLED GraphBuild("request")
  /\ clients_made <= 1
  /\ models_made <= 1
  /\ graphs_made <= 1

\* every character of every page is white space
AllBlank(pages) ==
  \A i \in DOMAIN pages : \A j \in DOMAIN pages[i] : IsSpace(pages[i][j])

\* C20: when the file loads with no non-blank page, or its texts give no
\* chunk, ingest_file returns 0 at that point: it raises nothing, calls
\* neither the embedding model nor ensure_collection nor insert, and the
\* collection is what it was.
C20_EmptyIngestIsNoOp ==
  [][(/\ req.op = "ingest"
      /\ \/ /\ tpc["request"] = "load"
            /\ tpc'["request"] # "load"
            /\ req'.cause = "none"
            /\ AllBlank(req.file.pages)
         \/ /\ tpc["request"] = "chunk"
            /\ tpc'["request"] # "chunk"
            /\ chunk_text(req.texts, req.file.path).chunks = <<>>) =>
        /\ tpc'["request"] = "idle"
        /\ req'.out = [kind |-> "returned", value |-> 0]
        /\ calls' = <<>>
        /\ collection' = collection
        /\ models_made' = models_made]_vars

\* a file of two blank pages was ingested in a connected process
C20_Witness ==
  /\ req.op = "ingest"
  /\ tpc["request"] = "idle"
  /\ db_client # 0
  /\ Len(req.file.pages) = 2
  /\ AllBlank(req.file.pages)
  /\ req.out = [kind |-> "returned", value |-> 0]
  /\ calls = <<>>

\* the extensions the loading supports, with their dot
SupportedExtensions ==
  { <<".","p","d","f">>, <<".","d","o","c","x">>, <<".","d","o","c">>,
    <<".","p","p","t","x">>, <<".","p","p","t">>, <<".","x","l","s","x">>,
    <<".","x","l","s">>, <<".","t","x","t">>, <<".","m","d">> }

\* the step in which the loading of the request's file ends
LoadEnds ==
  req.op \in {"ingest", "ingest_document"} /\ tpc["request"] = "load" /\ tpc'["request"] # "load"

\* C21: loading a path that does not exist fails with the not-found error
\* that names the path; loading an existing path whose lower-cased extension
\* is not a supported one fails with the unsupported-format error that names
\* every supported extension. Either failure ends the call at once (the
\* load is not tried again), with no embedding, no ensure_collection, no
\* insert and the collection as it was; the tool ingest_document answers a
\* path that does not exist with its not-found text, without loading.
C21_LoadErrors ==
  [][/\ (LoadEnds /\ ~req.file.exists) =>
          /\ req'.cause = "FileNotFoundError"
          /\ req'.out = [kind |-> "raised", value |-> FileNotFound \o req.file.path]
     /\ (LoadEnds /\ req.file.exists
           /\ Lower(Suffix(req.file.path)) \notin SupportedExtensions) =>
          /\ req'.cause = "ValueError"
          /\ req'.out.kind = (IF req.op = "ingest" THEN "raised" ELSE "returned")
          /\ Contains(UnsupportedType, req'.out.value)
          /\ \A e \in SupportedExtensions : Contains(e, req'.out.value)
     /\ (LoadEnds /\ (~req.file.exists
                       \/ Lower(Suffix(req.file.path)) \notin SupportedExtensions)) =>
          /\ tpc'["request"] = "idle"
          /\ calls' = <<>>
          /\ collection' = collection
          /\ models_made' = models_made
     /\ (tpc["request"] = "idle" /\ req' # req /\ req'.op = "ingest_document"
           /\ ~req'.file.exists) =>
          /\ tpc'["request"] = "idle"
          /\ req'.out = [kind |-> "returned", value |-> ToolNotFound(req'.file.path)]
          /\ calls' = <<>>
          /\ collection' = collection]_vars

\* ingest_file of an existing file with an unsupported extension has
\* raised, in a connected process whose collection holds rows
C21_Witness ==
  /\ req.op = "ingest"
  /\ tpc["request"] = "idle"
  /\ req.file.exists
  /\ req.file.path = <<"c",".","e","x","e">>
  /\ req.cause = "ValueError"
  /\ req.out.kind = "raised"
  /\ db_client # 0
  /\ collection.rows # <<>>

\* the order of the steps of ingest_file: where a call can be right after
\* it was at a step
IngestOrder(at) ==
  CASE at = "load" -> {"chunk", "idle"}
    [] at = "chunk" -> {"model_check", "idle"}
    [] at = "model_check" -> {"model_load", "encode"}
    [] at = "model_load" -> {"encode", "idle"}
    [] at = "encode" -> {"ensure_collection", "idle"}
    [] at = "ensure_collection" -> {"insert", "idle"}
    [] at = "insert" -> {"idle"}
    [] OTHER -> {"load", "idle"}

\* C22: ingest_file goes through load, chunk, embed, ensure_collection and
\* insert in that order, one step at a time, and a call whose chunking gave
\* a chunk reaches insert only after the embedding and ensure_collection
\* have been done once each, in that order; insert is handed as many
\* embeddings and sources as chunks, every source is the file path the call
\* was given, and the value ingest_file returns is the number of rows insert
\* stored.
C22_PipelineOrder ==
  [][req.op = "ingest" =>
       /\ tpc'["request"] # tpc["request"] =>
            tpc'["request"] \in IngestOrder(tpc["request"])
       /\ (tpc["request"] = "chunk" /\ tpc'["request"] # "idle") =>
            /\ req'.chunks # <<>>
            /\ calls' = <<>>
       /\ tpc["request"] = "insert" =>
            /\ calls = <<"encode", "ensure_collection">>
            /\ req.chunks # <<>>
            /\ Len(generate_embeddings(req.chunks)) = Len(req.chunks)
            /\ Len(req.sources) = Len(req.chunks)
            /\ \A i \in DOMAIN req.sources : req.sources[i] = req.file.path
            /\ calls' = <<"encode", "ensure_collection", "insert">>
            /\ req'.out.kind = "returned" =>
                 /\ req'.out.value = Len(collection'.rows) - Len(collection.rows)
                 /\ req'.out.value = Len(req.chunks)]_vars

\* ingest_file of a two-page file in a directory has returned 2 after its
\* insert
C22_Witness ==
  /\ req.op = "ingest"
  /\ tpc["request"] = "idle"
  /\ req.file.path = <<"f","/","g",".","P","D","F">>
  /\ calls = <<"encode", "ensure_collection", "insert">>
  /\ req.out = [kind |-> "returned", value |-> 2]
  /\ Len(collection.rows) = Len(req.before) + 2

\* the step of the request thread's ensure_collection call
EnsureStep == tpc["request"] = "ensure_collection" /\ tpc'["request"] # "ensure_collection"

\* C23: an ensure_collection call on a connected store that finds the
\* collection changes nothing of it; one that finds none and does not fail
\* creates it, with the schema and the index; so over the calls of a
\* process the collection is created at most once. A call without a
\* connection fails on "Not connected" and leaves the store as it was.
C23_EnsureIdempotent ==
  [][/\ (EnsureStep /\ db_client # 0 /\ collection.exists) =>
          collection' = collection
     /\ (EnsureStep /\ db_client # 0 /\ ~collection.exists
           /\ tpc'["request"] = "insert") =>
          collection' = [collection EXCEPT !.exists = TRUE, !.schema = Schema,
                                           !.index = Index, !.creates = 1]
     /\ (EnsureStep /\ db_client = 0) =>
          /\ collection' = collection
          /\ tpc'["request"] = "idle"
          /\ req'.cause = "not_connected"
          /\ Contains(NotConnected, req'.out.value)
     /\ collection'.creates <= 1
     /\ collection.exists => collection'.exists]_vars

\* a later ensure_collection call has gone through on the collection that
\* an earlier call of the process created and filled
C23_Witness ==
  /\ collection.creates = 1
  /\ req.before # <<>>
  /\ tpc["request"] = "insert"
  /\ calls = <<"encode", "ensure_collection">>

\* C24: whatever the search gives (hits, no hit, an exception), a Retrieve
\* step adds exactly one element, a non-empty string, to documents, so that
\* documents is not empty when the Grade that follows starts.
C24_RetrieveAddsOne ==
  [][\A c \in Cycles :
       Ran(c, "retrieve") =>
         /\ Len(state'[c]["documents"]) = Len(state[c]["documents"]) + 1
         /\ SubSeq(state'[c]["documents"], 1, Len(state[c]["documents"]))
              = state[c]["documents"]
         /\ Last(state'[c]["documents"]) # <<>>
         /\ pc'[c] = "grade"
         /\ state'[c]["documents"] # <<>>]_vars

\* a second Retrieve of a cycle, after a Rewrite, has run and Grade is next
C24_Witness ==
  \E c \in Cycles :
    /\ pc[c] = "grade"
    /\ Len(trace[c]) >= 2
    /\ SubSeq(trace[c], Len(trace[c]) - 1, Len(trace[c])) = <<"rewrite", "retrieve">>
    /\ RetrievalCount(state[c]) >= 2
    /\ state[c]["documents"] # <<>>

\* C25: a cycle that reaches the end of the graph has run Generate exactly
\* once and holds generation_count = 1; the answer Generate set is in the
\* state from then on, the check after it leaves it as it is, and run_agent
\* returns it, empty or not; the fallback sentence is returned only when no
\* Generate step has set an answer.
C25_AnswerOfGenerate ==
  [][\A c \in Cycles :
       /\ Ran(c, "generate") =>
            /\ "answer" \in DOMAIN state'[c]
            /\ state'[c]["answer"] \in LLMTexts
            /\ GenerationCount(state'[c]) = 1
       /\ Ran(c, "hallucination_check") =>
            /\ state'[c]["answer"] = state[c]["answer"]
            /\ GenerationCount(state'[c]) = GenerationCount(state[c])
       /\ pc[c] = END =>
            /\ Count(trace[c], "generate") = 1
            /\ GenerationCount(state[c]) = 1
            /\ Last(trace[c]) = "hallucination_check"
       /\ (pc[c] = END /\ pc'[c] = "returned") =>
            /\ result'[c] = Answer(state[c]["answer"])
            /\ result'[c].value = NoAnswer => Count(trace[c], "generate") = 0]_vars

\* run_agent has returned the empty answer its one Generate step had set
C25_Witness ==
  \E c \in Cycles :
    /\ pc[c] = "returned"
    /\ result[c] = Answer(<<>>)
    /\ state[c]["answer"] = <<>>
    /\ GenerationCount(state[c]) = 1

\* the pushes that a _save thread has still to make can be seen in its pc
Pushing(i) == savers[i].pc \in {"push_user", "push_assistant"}

\* C26: when run_agent returns, its _save thread holds the session and the
\* question run_agent was called with and the answer it returns, and keeps
\* them to its end; the thread pushes "user:" followed by that question
\* first and "assistant:" followed by that answer second, character for
\* character, whatever question the graph state holds by then.
C26_SavedPair ==
  [][/\ \A c \in Cycles :
          (pc[c] = END /\ pc'[c] = "returned") =>
             /\ result'[c].kind = "answer"
             /\ savers'[num[c]] = [pc |-> "push_user", session |-> session_id[c],
                                   question |-> asked[c],
                                   answer |-> result'[c].value]
     /\ \A i \in SaverIds :
          /\ savers[i].pc # "unused" =>
               /\ savers'[i].session = savers[i].session
               /\ savers'[i].question = savers[i].question
               /\ savers'[i].answer = savers[i].answer
          /\ savers'[i].pc # savers[i].pc =>
               <<savers[i].pc, savers'[i].pc>> \in
                  { <<"unused", "push_user">>, <<"push_user", "trim_user">>,
                    <<"trim_user", "push_assistant">>,
                    <<"push_assistant", "trim_assistant">>,
                    <<"trim_assistant", "done">>,
                    <<"push_user", "failed">>, <<"trim_user", "failed">>,
                    <<"push_assistant", "failed">>, <<"trim_assistant", "failed">> }
          /\ (Pushing(i) /\ savers'[i].pc \in {"trim_user", "trim_assistant"}) =>
               store'[savers[i].session] =
                 Append(store[savers[i].session],
                        IF savers[i].pc = "push_user"
                          THEN <<"u","s","e","r",":">> \o savers[i].question
                          ELSE <<"a","s","s","i","s","t","a","n","t",":">>
                                 \o savers[i].answer)
          /\ (store' # store /\ \A j \in SaverIds : ~Pushing(j)) =>
               \A s \in Sessions : \E n \in 0..Len(store[s]) :
                  store'[s] = SubSeq(store[s], n + 1, Len(store[s]))]_vars

\* a cycle on a session with earlier turns has returned an answer with white
\* space around it, and its pair is stored after those turns
C26_Witness ==
  \E c \in Cycles :
    /\ pc[c] = "returned"
    /\ savers[num[c]].pc = "done"
    /\ Len(store[session_id[c]]) > 2
    /\ asked[c] = <<"a", ":", "b">>
    /\ result[c] = Answer(<<" ", "r", "\n">>)
    /\ LastN(store[session_id[c]], 2) =
         << <<"u","s","e","r",":">> \o asked[c],
            <<"a","s","s","i","s","t","a","n","t",":">> \o <<" ", "r", "\n">> >>

\* the entries of a list are pairs: a user entry, then an assistant entry
InPairs(list) ==
  /\ Len(list) % 2 = 0
  /\ \A k \in 1..Len(list) :
       IF k % 2 = 1 THEN Take(list[k], 5) = <<"u","s","e","r",":">>
       ELSE Take(list[k], 10) = <<"a","s","s","i","s","t","a","n","t",":">>

\* C27: once the _save threads of the cycles on a session have ended
\* without a failure, the session's list is made of pairs, each the user
\* entry of a cycle immediately followed by the assistant entry of that
\* cycle, whatever the order in which the threads ran.
C27_PairsTogether ==
  \A s \in Sessions :
    (\A i \in SaverIds : savers[i].session = s => savers[i].pc \in {"unused", "done"}) =>
       /\ InPairs(store[s])
       /\ \A i \in SaverIds :
            (savers[i].session = s /\ savers[i].pc = "done") =>
               \E k \in 1..(Len(store[s]) - 1) :
                  /\ k % 2 = 1
                  /\ store[s][k] = Encode(UserRole, savers[i].question)
                  /\ store[s][k + 1] = Encode(AssistantRole, savers[i].answer)

\* the turn pair of a _save thread is in a history, one entry after the other
HasTurn(hist, sv) ==
  \E k \in 1..(Len(hist) - 1) :
    /\ hist[k] = [role |-> UserRole, content |-> sv.question]
    /\ hist[k + 1] = [role |-> AssistantRole, content |-> sv.answer]

\* C28: the history a run_agent call reads holds the user and the assistant
\* turn of every cycle on its session that has returned its answer before
\* the call started.
C28_SnapshotHasEarlierTurns ==
  [][\A c \in Cycles :
       (num'[c] # num[c] /\ pc'[c] = "retrieve") =>
          \A i \in SaverIds :
            (savers[i].pc # "unused" /\ savers[i].session = session_id'[c]) =>
               HasTurn(history'[c], savers[i])]_vars

\* C29: a client is cached by get_redis_sync only in a call whose ping
\* succeeded: a call made while the store is unreachable, with no client
\* cached, raises and leaves no client cached, so that the next call makes
\* a client and pings again.
C29_CachedAfterPing ==
  [][/\ (redis_client = "None" /\ redis_client' # "None") => redisUp
     /\ \A c \in Cycles :
          (redis_client = "None" /\ ~redisUp /\ result'[c] = Raised
             /\ result[c] # Raised) =>
             redis_client' = "None"]_vars

====
